---- MODULE Spec2Model ----
(***************************************************************************)
(* Model of the MoviePilot metadata cache (app/modules/themoviedb/         *)
(* tmdb_cache.py): the in-memory entry map, the cache file, the save       *)
(* heuristic with its sampling pass, the auto-save timers, the lock and    *)
(* the write of the file; and of the subscription chain (app/chain/        *)
(* subscribe.py, app/chain/search.py): direct search, refresh and match;   *)
(* and of the Telegram message receiver (app/modules/telegram/             *)
(* telegram.py): the polling loop and its stop signal.                     *)
(***************************************************************************)
EXTENDS FiniteSets, Integers, Sequences, TLC

VARIABLES
    _meta_data,     \* TmdbCache._meta_data: key -> entry (a Python dict per entry)
    disk,           \* content of the cache file at _meta_path
    now,            \* int(time.time())
    timer,          \* TmdbCache.timer: the Timer object the cache refers to
    orphans,        \* due times of pending Timers the cache no longer refers to
    shutdown,       \* TRUE once __del__ has run
    ret,            \* observation of the last operation: what it returned / did
    new_meta_data,  \* the export set a running _random_sample works on
    sample_pc,      \* position of the sampling pass: "idle", "call" or "done"
    sample_ret,     \* accumulated return value of the sampling pass
    passes,         \* number of _random_sample invocations so far
    sample_in,      \* the export set the outermost _random_sample call was given
    subscribes,     \* the subscription store: id -> row
    _torrents_cache, \* SubscribeChain._torrents_cache: per site, its contexts
    chain_pc,       \* the chain method that is running: "idle", "search", "refresh", "match"
    chain_todo,     \* the rows or sites the running loop has still to handle
    chain_log,      \* what the last pass of a loop body did
    lock,           \* the module-level RLock of tmdb_cache.py
    threads,        \* per calling thread: the operation it runs and its position
    access,         \* the last access to self._meta_data and who held the lock
    writing,        \* the write of the cache file that is under way
    scan,           \* a running delete_by_tmdbid / delete_unknown: its position
    _event,         \* Telegram._event: TRUE once set
    tg_pc,          \* position of the receiver thread in __start_telegram_message_proxy
    index,          \* polls made in the current round of the inner loop
    offset,         \* the offset the next getUpdates request carries
    arrived,        \* number of updates the server has received (ids 1..arrived)
    forwarded,      \* the update ids posted to the local endpoint, in order
    undelivered     \* ids of the updates whose post to the local endpoint failed

vars == <<_meta_data, disk, now, timer, orphans, shutdown, ret,
          new_meta_data, sample_pc, sample_ret, passes, sample_in,
          subscribes, _torrents_cache, chain_pc, chain_todo, chain_log,
          lock, threads, access, writing, scan,
          _event, tg_pc, index, offset, arrived, forwarded, undelivered>>

cacheVars == <<_meta_data, disk, now, timer, orphans, shutdown, ret>>
sampleVars == <<new_meta_data, sample_pc, sample_ret, passes, sample_in>>
chainVars == <<subscribes, _torrents_cache, chain_pc, chain_todo, chain_log>>
lockVars == <<lock, threads, access>>
crashVars == <<writing>>
raceVars == <<scan>>
telegramVars == <<_event, tg_pc, index, offset, arrived, forwarded, undelivered>>

----------------------------------------------------------------------------
(* Program constants *)
\* polls per round of the inner loop, telegram.py line 183
PollsPerRound == 20

CACHE_EXPIRE_TIMESTAMP_STR == "cache_expire_timestamp"
EXPIRE_TIMESTAMP == 7 * 24 * 3600
_save_interval == 600
_tmdb_cache_expire == TRUE
SampleSize == 25
ExpiredLimit == 5

(* Bounds of the model *)
\* updates the Telegram server receives
MaxMsgs == 3

MaxTicks == 1
MaxTimers == 2
MaxEntries == 30

----------------------------------------------------------------------------
(* Python values *)

None == "None"
Null == <<>>                      \* None / {} passed or returned as a dict
MOVIE == "MOVIE"
TV == "TV"

Truthy(d) == DOMAIN d # {}

\* dict.get(k): None when the key is absent
DictGet(d, k) == IF k \in DOMAIN d THEN d[k] ELSE None

\* info.get(CACHE_EXPIRE_TIMESTAMP_STR); an absent stamp and 0 are both falsy
ExpireOf(d) ==
    IF CACHE_EXPIRE_TIMESTAMP_STR \in DOMAIN d THEN d[CACHE_EXPIRE_TIMESTAMP_STR] ELSE 0

\* str(v.get("id"))
IdStr(d) == IF "id" \in DOMAIN d THEN ToString(d["id"]) ELSE None

\* dict with key k removed / set
Pop(d, k) == [x \in DOMAIN d \ {k} |-> d[x]]
Put(d, k, v) == [x \in DOMAIN d \cup {k} |-> IF x = k THEN v ELSE d[x]]
EmptyDict == <<>>

\* date strings the provider returns, and their first four characters
Dates == {"1999-03-31", "2008-01-20"}
Slice4(s) == CASE s = "1999-03-31" -> "1999"
               [] s = "2008-01-20" -> "2008"
               [] OTHER -> s

----------------------------------------------------------------------------
(* Inputs *)

\* MetaBase objects used as lookup keys
Metas == { [type |-> MOVIE, name |-> "Matrix", year |-> "1999", begin_season |-> "None"],
           [type |-> TV, name |-> "Breaking Bad", year |-> "2008", begin_season |-> "1"] }

\* records returned by the metadata provider
MovieInfo == [id |-> 603, media_type |-> MOVIE, title |-> "The Matrix",
              release_date |-> "1999-03-31",
              poster_path |-> "/p603.jpg", backdrop_path |-> "/b603.jpg"]
TvInfo == [id |-> 1396, media_type |-> TV, name |-> "Breaking Bad",
           first_air_date |-> "2008-01-20",
           poster_path |-> "/p1396.jpg", backdrop_path |-> "/b1396.jpg"]
\* what the provider finds for a lookup key
Recognized(meta) == IF meta.type = MOVIE THEN MovieInfo ELSE TvInfo

Titles == {"Matrix CN"}
TmdbIds == {603, 0}

__get_key(meta) ==
    "[" \o meta.type \o "]" \o meta.name \o "-" \o meta.year \o "-" \o meta.begin_season

Keys == { __get_key(m) : m \in Metas }
MovieKey == __get_key(CHOOSE m \in Metas : m.type = MOVIE)

----------------------------------------------------------------------------
(* TmdbCache: pure parts of the operations *)

StartTime == EXPIRE_TIMESTAMP

\* the entry update() stores for a provider record stamped at time t
Stored(info, t) ==
    LET is_movie == DictGet(info, "media_type") = MOVIE
        cache_title == IF is_movie THEN DictGet(info, "title") ELSE DictGet(info, "name")
        raw_year == IF is_movie THEN DictGet(info, "release_date")
                                ELSE DictGet(info, "first_air_date")
        cache_year == IF raw_year # None THEN Slice4(raw_year) ELSE raw_year
    IN  [id |-> DictGet(info, "id"),
         type |-> DictGet(info, "media_type"),
         year |-> cache_year,
         title |-> cache_title,
         poster_path |-> DictGet(info, "poster_path"),
         backdrop_path |-> DictGet(info, "backdrop_path"),
         cache_expire_timestamp |-> t + EXPIRE_TIMESTAMP]

\* update(meta, info): new or replaced entry; a falsy info stores the sentinel
update(md, meta, info, t) ==
    IF Truthy(info)
    THEN Put(md, __get_key(meta), Stored(info, t))
    ELSE Put(md, __get_key(meta), [id |-> 0])

\* delete that leaves the map alone
delete_Noop(md, key) == md

\* delete(key): dict.pop(key, None)
delete(md, key) == Pop(md, key)

\* get that slides the stamp of the returned copy only
get_NoWriteBack(md, meta, t) ==
    LET key == __get_key(meta)
        info == IF key \in DOMAIN md THEN md[key] ELSE Null
        expire == ExpireOf(info)
    IN  IF Truthy(info)
        THEN IF expire = 0 \/ t < expire
             THEN [md |-> md,
                   value |-> Put(info, CACHE_EXPIRE_TIMESTAMP_STR, t + EXPIRE_TIMESTAMP)]
             ELSE IF expire # 0 /\ _tmdb_cache_expire
                  THEN [md |-> delete(md, key), value |-> info]
                  ELSE [md |-> md, value |-> info]
        ELSE [md |-> md, value |-> Null]

\* get(meta): the map afterwards and the value handed to the caller
get(md, meta, t) ==
    LET key == __get_key(meta)
        info == IF key \in DOMAIN md THEN md[key] ELSE Null
        expire == ExpireOf(info)
    IN  IF Truthy(info)
        THEN IF expire = 0 \/ t < expire
             THEN LET slid == Put(info, CACHE_EXPIRE_TIMESTAMP_STR, t + EXPIRE_TIMESTAMP)
                  IN  [md |-> update(md, meta, slid, t), value |-> slid]
             ELSE IF expire # 0 /\ _tmdb_cache_expire
                  THEN [md |-> delete(md, key), value |-> info]
                  ELSE [md |-> md, value |-> info]
        ELSE [md |-> md, value |-> Null]

\* modify(key, title)
modify(md, key, title, t) ==
    IF key \in DOMAIN md /\ Truthy(md[key])
    THEN Put(md, key, Put(Put(md[key], "title", title),
                          CACHE_EXPIRE_TIMESTAMP_STR, t + EXPIRE_TIMESTAMP))
    ELSE md

\* set_title(key, cn_title)
set_title(md, key, cn_title) ==
    IF key \in DOMAIN md /\ Truthy(md[key])
    THEN Put(md, key, Put(md[key], "title", cn_title))
    ELSE md

\* delete_by_tmdbid(tmdbid), run without interference
delete_by_tmdbid(md, tmdbid) ==
    [k \in {x \in DOMAIN md : IdStr(md[x]) # ToString(tmdbid)} |-> md[k]]

\* delete_unknown(), run without interference
delete_unknown(md) ==
    [k \in {x \in DOMAIN md : IdStr(md[x]) # "0"} |-> md[k]]

\* __load(path): a missing or unreadable file loads as an empty dict
NoFile == [status |-> "nofile", data |-> EmptyDict]
Corrupt == [status |-> "corrupt", data |-> EmptyDict]
File(d) == [status |-> "ok", data |-> d]
__load(file) == IF file.status = "ok" THEN file.data ELSE EmptyDict

\* export set that keeps the sentinels
ExportSet_KeepAll(md) == md

\* save, line 162: the export set leaves the sentinels out
ExportSet(md) == [k \in {x \in DOMAIN md : IdStr(md[x]) # "0"} |-> md[k]]

----------------------------------------------------------------------------
(* _random_sample *)

IsUnstamped(info) == ExpireOf(info) = 0
IsExpired(info, t) == ExpireOf(info) # 0 /\ t >= ExpireOf(info)

\* the loop body of either branch, applied to the keys ks of the export set d
Scan(d, ks, t) ==
    LET unstamped == {k \in ks : IsUnstamped(d[k])}
        expired == {k \in ks : IsExpired(d[k], t)}
        evicted == IF _tmdb_cache_expire THEN expired ELSE {}
    IN  [data |-> [k \in DOMAIN d \ evicted |->
                     IF k \in unstamped
                     THEN Put(d[k], CACHE_EXPIRE_TIMESTAMP_STR, t + EXPIRE_TIMESTAMP)
                     ELSE d[k]],
         ret |-> (unstamped \cup expired) # {},
         stamped |-> unstamped,
         count |-> Cardinality(evicted)]

RECURSIVE Take(_, _)
Take(S, n) ==
    IF n = 0 \/ S = {} THEN {}
    ELSE LET x == CHOOSE y \in S : TRUE IN {x} \cup Take(S \ {x}, n - 1)

\* random.sample(new_meta_data.keys(), SampleSize).  The scan treats a key only
\* by the state of its stamp, so one sample stands for every sample that draws
\* the same number of expired, unstamped and live keys.
Samples(d, t) ==
    LET E == {k \in DOMAIN d : IsExpired(d[k], t)}
        U == {k \in DOMAIN d : IsUnstamped(d[k])}
        L == DOMAIN d \ (E \cup U)
    IN  { Take(E, e) \cup Take(U, u) \cup Take(L, SampleSize - e - u) :
            <<e, u>> \in { c \in (0..SampleSize) \X (0..SampleSize) :
                             /\ c[1] <= Cardinality(E)
                             /\ c[2] <= Cardinality(U)
                             /\ c[1] + c[2] <= SampleSize
                             /\ SampleSize - c[1] - c[2] <= Cardinality(L) } }

\* branch of line 183: every key is scanned, no recursion
SampleAll(d, t) ==
    LET r == Scan(d, DOMAIN d, t)
    IN  [data |-> r.data, ret |-> r.ret, stamped |-> r.stamped, recurse |-> FALSE]

\* sampling branch that never calls again
SampleSome_NoRecurse(d, ks, t) ==
    LET r == Scan(d, ks, t)
    IN  [data |-> r.data, ret |-> r.ret, stamped |-> r.stamped, recurse |-> FALSE]

\* sampling branch that calls again whatever it evicted
SampleSome_AlwaysRecurse(d, ks, t) ==
    LET r == Scan(d, ks, t)
    IN  [data |-> r.data, ret |-> r.ret, stamped |-> r.stamped, recurse |-> TRUE]

\* branch of line 195 for the drawn keys ks, up to the test of line 209
SampleSome(d, ks, t) ==
    LET r == Scan(d, ks, t)
    IN  [data |-> r.data, ret |-> r.ret, stamped |-> r.stamped,
         recurse |-> r.count >= ExpiredLimit]

\* the possible results of one invocation body
SampleStep(d, t) ==
    IF Cardinality(DOMAIN d) < SampleSize
    THEN {SampleAll(d, t)}
    ELSE {SampleSome(d, ks, t) : ks \in Samples(d, t)}

\* _random_sample(new_meta_data): every possible final result
RECURSIVE _random_sample(_, _)
_random_sample(d, t) ==
    UNION { IF r.recurse
            THEN { [data |-> q.data, ret |-> r.ret \/ q.ret,
                    stamped |-> r.stamped \cup q.stamped] : q \in _random_sample(r.data, t) }
            ELSE { [data |-> r.data, ret |-> r.ret, stamped |-> r.stamped] }
          : r \in SampleStep(d, t) }

----------------------------------------------------------------------------
(* Subscriptions and site inventories: values (app/chain/subscribe.py,     *)
(* app/chain/search.py)                                                     *)

\* a MediaInfo object; NoMedia stands for the None recognize_media returns
NoMedia == [tmdb_id |-> 0, type |-> None, imdb_id |-> None]
SeriesMedia == [tmdb_id |-> 1396, type |-> TV, imdb_id |-> "tt0903747"]
FilmMedia == [tmdb_id |-> 603, type |-> MOVIE, imdb_id |-> None]
IsMedia(mediainfo) == mediainfo # NoMedia

\* subscribe.lack_episode of a row no match has written yet
NoCount == -1

\* the rows of the subscription store; season 0 stands for no season
Subscriptions ==
    {[id |-> 1, name |-> "Breaking Bad", tmdbid |-> 1396, type |-> TV,
      season |-> 2, state |-> "N", lack_episode |-> NoCount],
     [id |-> 2, name |-> "The Matrix", tmdbid |-> 603, type |-> MOVIE,
      season |-> 0, state |-> "N", lack_episode |-> NoCount]}
SubIds == {s.id : s \in Subscriptions}

\* recognize_media(meta, tmdbid=subscribe.tmdbid) when it succeeds
MediaOf(subscribe) == IF subscribe.tmdbid = 1396 THEN SeriesMedia ELSE FilmMedia

\* TorrentInfo objects the sites list
Torrent(title, imdbid) == [title |-> title, imdbid |-> imdbid]
S01 == Torrent("Breaking.Bad.S01.1080p", None)
S02 == Torrent("Breaking.Bad.S02.1080p", None)
S02cn == Torrent("Jue.Ming.Du.Shi.S02", None)
S01imdb == Torrent("Breaking.Bad.S01.1080p", "tt0903747")
RawImdb == Torrent("Unknown.Release", "tt0903747")
Raw == Torrent("Unknown.Release", None)
Film == Torrent("The.Matrix.1999.1080p", None)
FilmCn == Torrent("Hei.Ke.Di.Guo.1999", None)
Sequel == Torrent("The.Matrix.Reloaded.2003", None)
FilmAsTv == Torrent("The.Matrix.S01", None)

\* MetaInfo(title).begin_season: the season the title names, 0 for none
MetaInfo(title) ==
    [begin_season |->
        CASE title \in {"Breaking.Bad.S01.1080p", "The.Matrix.S01"} -> 1
          [] title \in {"Breaking.Bad.S02.1080p", "Jue.Ming.Du.Shi.S02"} -> 2
          [] OTHER -> 0]

\* recognize_media(meta) for the meta of a torrent title
recognize_media(title) ==
    CASE title \in {"Breaking.Bad.S01.1080p", "Breaking.Bad.S02.1080p",
                    "Jue.Ming.Du.Shi.S02"} -> SeriesMedia
      [] title \in {"The.Matrix.1999.1080p", "Hei.Ke.Di.Guo.1999"} -> FilmMedia
      [] title = "The.Matrix.Reloaded.2003" ->
           [tmdb_id |-> 604, type |-> MOVIE, imdb_id |-> None]
      [] title = "The.Matrix.S01" ->
           [tmdb_id |-> 603, type |-> TV, imdb_id |-> None]
      [] OTHER -> NoMedia

\* what refresh_torrents / search_torrents return for a site or a search
Listings ==
    {<<>>,
     <<S01, S02, Raw>>,
     <<S02cn, Film, FilmCn, Sequel, FilmAsTv>>,
     <<RawImdb, S01imdb, Film>>}

\* siteshelper.get_indexers(), by domain
Indexers == <<"site-a.org", "site-b.org">>

\* what filter_torrents does with the matched list: returns None, the first
\* item only, or the empty list
Filters == {"none", "first", "empty"}

\* the second value batch_download returns: media id -> {"episodes": [...]}
OneLeft(id, episodes) == [x \in {id} |-> [episodes |-> episodes]]
Lefts ==
    {EmptyDict, OneLeft(1396, <<3>>), OneLeft(1396, <<2, 3>>), OneLeft(603, <<>>)}

Context(meta, mediainfo, torrent) ==
    [meta_info |-> meta, media_info |-> mediainfo, torrent_info |-> torrent]

\* what one pass of a loop body did: the subscription or site it handled,
\* the calls it made and what it handed to them
NoLog ==
    [op |-> "none", sid |-> 0, target |-> NoMedia, season |-> 0,
     held |-> FALSE, searched |-> FALSE, scanned |-> FALSE,
     listing |-> <<>>, resolved |-> {}, matched |-> <<>>,
     downloaded |-> FALSE, handed |-> <<>>, lefts |-> EmptyDict, site |-> None,
     raised |-> FALSE, failed |-> "none", retry |-> 0]

\* the chains before any of their methods has run
ChainIdle ==
    /\ subscribes = EmptyDict
    /\ _torrents_cache = <<>>
    /\ chain_pc = "idle"
    /\ chain_todo = <<>>
    /\ chain_log = NoLog

----------------------------------------------------------------------------
(* The module-level RLock and the threads that call the cache: values      *)

Threads == {1, 2}

\* lock: the thread that owns it (0 for none) and how often it acquired it
Free == [owner |-> 0, depth |-> 0]
IdleThread == [op |-> "idle", pc |-> 0]
NoAccess == [thread |-> 0, op |-> "none", kind |-> "none", line |-> 0, owner |-> 0]

LockIdle ==
    /\ lock = Free
    /\ threads = [t \in Threads |-> IdleThread]
    /\ access = NoAccess

\* no write of the cache file is under way
NotWriting == [phase |-> "idle", old |-> NoFile, new |-> EmptyDict, force |-> FALSE]
CrashIdle == writing = NotWriting

\* no delete_by_tmdbid or delete_unknown is running
NoScan == [op |-> "none", pc |-> "idle", tmdbid |-> 0, keys |-> {}, key |-> None,
           raised |-> FALSE]
RaceIdle == scan = NoScan

\* the receiver as __init__ leaves it: the Thread object exists and has not
\* been started, the class attribute _event is not set
TelegramIdle ==
    /\ _event = FALSE
    /\ tg_pc = "created"
    /\ index = 0
    /\ offset = 0
    /\ arrived = 0
    /\ forwarded = <<>>
    /\ undelivered = {}

----------------------------------------------------------------------------
(* State machine of the cache *)

NoRet == [op |-> "none", key |-> None, value |-> Null, force |-> FALSE, wrote |-> FALSE,
          failed |-> FALSE, raised |-> FALSE]
Returned(op, key, value) == [NoRet EXCEPT !.op = op, !.key = key, !.value = value]

\* the clock advances to one second before a stamp set at the last reading runs out
Deltas == {EXPIRE_TIMESTAMP - 1}
TicksTaken(t) == (t - StartTime) \div (EXPIRE_TIMESTAMP - 1)

\* entries a cache file written by an earlier run can hold: stamped and still
\* live, stamped and expired, or written before stamps existed
OldEntries ==
    { Stored(MovieInfo, StartTime - EXPIRE_TIMESTAMP),
      Stored(MovieInfo, StartTime + 1 - EXPIRE_TIMESTAMP),
      [x \in DOMAIN Stored(MovieInfo, 0) \ {CACHE_EXPIRE_TIMESTAMP_STR}
          |-> Stored(MovieInfo, 0)[x]] }

OldFiles ==
    {NoFile, Corrupt}
    \cup { File([k \in ks |-> e]) : ks \in {{}, {MovieKey}}, e \in OldEntries }

\* a threading.Timer: created, then pending once started, then fired or
\* cancelled; due is the time a pending Timer runs its function
Created == [state |-> "created", due |-> 0]
Pending(t) == [state |-> "pending", due |-> t + _save_interval]
Fired == [state |-> "fired", due |-> 0]
Cancelled == [state |-> "cancelled", due |-> 0]

\* __init__ and init_config
CacheInit ==
    /\ disk \in OldFiles
    /\ now = StartTime
    /\ timer = Created
    /\ orphans = <<>>
    /\ _meta_data = __load(disk)
    /\ shutdown = FALSE
    /\ ret = NoRet

SampleIdle ==
    /\ new_meta_data = EmptyDict
    /\ sample_pc = "idle"
    /\ sample_ret = FALSE
    /\ passes = 0
    /\ sample_in = EmptyDict

Init ==
    CacheInit /\ SampleIdle /\ ChainIdle /\ LockIdle /\ CrashIdle /\ RaceIdle /\ TelegramIdle

Tick(d) ==
    /\ TicksTaken(now) < MaxTicks
    /\ now' = now + d
    /\ ret' = NoRet
    /\ UNCHANGED <<_meta_data, disk, timer, orphans, shutdown>>
    /\ UNCHANGED <<sampleVars, chainVars, lockVars, crashVars, raceVars, telegramVars>>

Update(meta, info) ==
    /\ ~shutdown
    /\ _meta_data' = update(_meta_data, meta, info, now)
    /\ ret' = NoRet
    /\ UNCHANGED <<disk, now, timer, orphans, shutdown>>
    /\ UNCHANGED <<sampleVars, chainVars, lockVars, crashVars, raceVars, telegramVars>>

Get(meta) ==
    /\ ~shutdown
    /\ LET r == get(_meta_data, meta, now)
       IN  /\ _meta_data' = r.md
           /\ ret' = Returned("get", __get_key(meta), r.value)
    /\ UNCHANGED <<disk, now, timer, orphans, shutdown>>
    /\ UNCHANGED <<sampleVars, chainVars, lockVars, crashVars, raceVars, telegramVars>>

Delete(key) ==
    /\ ~shutdown
    /\ _meta_data' = delete(_meta_data, key)
    /\ ret' = NoRet
    /\ UNCHANGED <<disk, now, timer, orphans, shutdown>>
    /\ UNCHANGED <<sampleVars, chainVars, lockVars, crashVars, raceVars, telegramVars>>

DeleteByTmdbid(tmdbid) ==
    /\ ~shutdown
    /\ _meta_data' = delete_by_tmdbid(_meta_data, tmdbid)
    /\ ret' = NoRet
    /\ UNCHANGED <<disk, now, timer, orphans, shutdown>>
    /\ UNCHANGED <<sampleVars, chainVars, lockVars, crashVars, raceVars, telegramVars>>

DeleteUnknown ==
    /\ ~shutdown
    /\ _meta_data' = delete_unknown(_meta_data)
    /\ ret' = NoRet
    /\ UNCHANGED <<disk, now, timer, orphans, shutdown>>
    /\ UNCHANGED <<sampleVars, chainVars, lockVars, crashVars, raceVars, telegramVars>>

Modify(key, title) ==
    /\ ~shutdown
    /\ _meta_data' = modify(_meta_data, key, title, now)
    /\ ret' = NoRet
    /\ UNCHANGED <<disk, now, timer, orphans, shutdown>>
    /\ UNCHANGED <<sampleVars, chainVars, lockVars, crashVars, raceVars, telegramVars>>

SetTitle(key, cn_title) ==
    /\ ~shutdown
    /\ _meta_data' = set_title(_meta_data, key, cn_title)
    /\ ret' = NoRet
    /\ UNCHANGED <<disk, now, timer, orphans, shutdown>>
    /\ UNCHANGED <<sampleVars, chainVars, lockVars, crashVars, raceVars, telegramVars>>

Clear ==
    /\ ~shutdown
    /\ _meta_data' = EmptyDict
    /\ ret' = NoRet
    /\ UNCHANGED <<disk, now, timer, orphans, shutdown>>
    /\ UNCHANGED <<sampleVars, chainVars, lockVars, crashVars, raceVars, telegramVars>>

InitConfig ==
    /\ ~shutdown
    /\ _meta_data' = __load(disk)
    /\ ret' = NoRet
    /\ UNCHANGED <<disk, now, timer, orphans, shutdown>>
    /\ UNCHANGED <<sampleVars, chainVars, lockVars, crashVars, raceVars, telegramVars>>

\* skip test that does not compare the key sets
Skips_IgnoreKeys(force, dirty, on_disk, export) == ~force /\ ~dirty

\* save, lines 164-167: TRUE when save returns without writing
Skips(force, dirty, on_disk, export) ==
    ~force /\ ~dirty /\ DOMAIN on_disk = DOMAIN export

\* save, lines 172-176: self.timer is replaced by a started Timer; the Timer it
\* referenced before is not cancelled and, when pending, keeps running
Reschedule(cur, orph, force, skipped, t) ==
    IF force \/ skipped
    THEN [timer |-> cur, orphans |-> orph]
    ELSE [timer |-> Pending(t),
          orphans |-> IF cur.state = "pending" THEN Append(orph, cur.due) ELSE orph]

\* save(force), called while self.timer is cur and the unreferenced pending
\* Timers are orph
save(force, cur, orph) ==
    LET meta_data == __load(disk)
        export == ExportSet(_meta_data)
        results == IF force
                   THEN {[data |-> export, ret |-> FALSE, stamped |-> {}]}
                   ELSE _random_sample(export, now)
    IN  \E s \in results :
          LET skipped == Skips(force, s.ret, meta_data, s.data)
              sched == Reschedule(cur, orph, force, skipped, now)
          IN  /\ 1 + Len(sched.orphans) <= MaxTimers
              \* the export set shares its entries with the map: a stamp set by
              \* the sampling pass is set on the entry in memory as well
              /\ _meta_data' = [k \in DOMAIN _meta_data |->
                                  IF k \in s.stamped THEN s.data[k] ELSE _meta_data[k]]
              /\ disk' = IF skipped THEN disk ELSE File(s.data)
              /\ timer' = sched.timer
              /\ orphans' = sched.orphans
              /\ ret' = [NoRet EXCEPT !.op = "save", !.force = force, !.wrote = ~skipped]
              /\ UNCHANGED <<now, shutdown>>
              /\ UNCHANGED <<sampleVars, chainVars, lockVars, crashVars, raceVars, telegramVars>>

\* save called by the application
Save(force) ==
    /\ ~shutdown
    /\ save(force, timer, orphans)

\* the Timer self.timer refers to reaches its interval and runs self.save
TimerFire ==
    /\ timer.state = "pending"
    /\ now >= timer.due
    /\ save(FALSE, Fired, orphans)

\* a pending Timer that self.timer no longer refers to runs self.save
OrphanFire(i) ==
    /\ now >= orphans[i]
    /\ save(FALSE, timer, SubSeq(orphans, 1, i - 1) \o SubSeq(orphans, i + 1, Len(orphans)))

\* __del__: self.timer.cancel()
Del ==
    /\ ~shutdown
    /\ shutdown' = TRUE
    /\ timer' = IF timer.state \in {"created", "pending"} THEN Cancelled ELSE timer
    /\ ret' = NoRet
    /\ UNCHANGED <<_meta_data, disk, now, orphans>>
    /\ UNCHANGED <<sampleVars, chainVars, lockVars, crashVars, raceVars, telegramVars>>

Next ==
    \/ \E d \in Deltas : Tick(d)
    \/ \E m \in Metas : \E info \in {Recognized(m), Null} : Update(m, info)
    \/ \E m \in Metas : Get(m)
    \/ \E k \in Keys : Delete(k)
    \/ \E id \in TmdbIds : DeleteByTmdbid(id)
    \/ DeleteUnknown
    \/ Clear
    \/ InitConfig
    \/ \E force \in BOOLEAN : Save(force)
    \/ TimerFire
    \/ \E i \in DOMAIN orphans : OrphanFire(i)
    \/ Del

Spec == Init /\ [][Next]_vars

\* every operation the application calls, at a fixed clock
OpsNext ==
    \/ \E m \in Metas : \E info \in {Recognized(m), Null} : Update(m, info)
    \/ \E m \in Metas : Get(m)
    \/ \E k \in Keys : Delete(k)
    \/ \E id \in TmdbIds : DeleteByTmdbid(id)
    \/ DeleteUnknown
    \/ \E k \in Keys, title \in Titles : Modify(k, title)
    \/ \E k \in Keys, title \in Titles : SetTitle(k, title)
    \/ Clear
    \/ InitConfig
    \/ \E force \in BOOLEAN : Save(force)
    \/ Del

SpecOps == Init /\ [][OpsNext]_vars

----------------------------------------------------------------------------
(* _random_sample on its own: one step per invocation of the function *)

\* the three kinds of entry the scan tells apart, at time StartTime
ExpiredEntry == Stored(MovieInfo, StartTime - EXPIRE_TIMESTAMP)
LiveEntry == Stored(MovieInfo, StartTime)
UnstampedEntry ==
    [x \in DOMAIN LiveEntry \ {CACHE_EXPIRE_TIMESTAMP_STR} |-> LiveEntry[x]]

\* an export set of e expired, u unstamped and l live entries
ExportOf(e, u, l) ==
    [k \in 1..(e + u + l) |->
        IF k <= e THEN ExpiredEntry
        ELSE IF k <= e + u THEN UnstampedEntry
        ELSE LiveEntry]

SampleInit ==
    /\ _meta_data = EmptyDict
    /\ disk = NoFile
    /\ now = StartTime
    /\ timer = Created
    /\ orphans = <<>>
    /\ shutdown = FALSE
    /\ ret = NoRet
    /\ \E e \in 0..MaxEntries :
         \E u \in 0..(MaxEntries - e) :
           \E l \in 0..(MaxEntries - e - u) :
             new_meta_data = ExportOf(e, u, l)
    /\ sample_in = new_meta_data
    /\ sample_pc = "call"
    /\ sample_ret = FALSE
    /\ passes = 0
    /\ ChainIdle
    /\ LockIdle
    /\ CrashIdle
    /\ RaceIdle
    /\ TelegramIdle

\* one invocation with result r: line 210 calls again, line 211 returns
Invoke(r) ==
    /\ new_meta_data' = r.data
    /\ sample_ret' = (sample_ret \/ r.ret)
    /\ passes' = passes + 1
    /\ sample_pc' = IF r.recurse THEN "call" ELSE "done"
    /\ UNCHANGED <<sample_in, cacheVars, chainVars, lockVars, crashVars, raceVars, telegramVars>>

\* invocation on fewer than SampleSize entries
SampleAllPass ==
    /\ sample_pc = "call"
    /\ Cardinality(DOMAIN new_meta_data) < SampleSize
    /\ Invoke(SampleAll(new_meta_data, now))

\* invocation on SampleSize entries or more
SampleSomePass ==
    /\ sample_pc = "call"
    /\ Cardinality(DOMAIN new_meta_data) >= SampleSize
    /\ \E ks \in Samples(new_meta_data, now) : Invoke(SampleSome(new_meta_data, ks, now))

SampleNext == SampleAllPass \/ SampleSomePass

SpecSample == SampleInit /\ [][SampleNext]_vars

----------------------------------------------------------------------------
(* save with the write of the file in its two steps, and a process that    *)
(* can die between them                                                    *)

\* the file after open(path, 'wb') and before pickle.dump has finished: cut
\* short, and pickle.load raises on it
Truncated == [status |-> "truncated", data |-> EmptyDict]

\* save up to line 169: the export set is built and open() empties the file
SaveOpen(force) ==
    /\ ~shutdown
    /\ writing.phase = "idle"
    /\ LET export == ExportSet(_meta_data)
           results == IF force
                      THEN {[data |-> export, ret |-> FALSE, stamped |-> {}]}
                      ELSE _random_sample(export, now)
       IN  \E s \in results :
             /\ ~Skips(force, s.ret, __load(disk), s.data)
             /\ _meta_data' = [k \in DOMAIN _meta_data |->
                                 IF k \in s.stamped THEN s.data[k] ELSE _meta_data[k]]
             /\ writing' = [phase |-> "open", old |-> disk, new |-> s.data,
                            force |-> force]
    /\ disk' = Truncated
    /\ ret' = NoRet
    /\ UNCHANGED <<now, timer, orphans, shutdown>>
    /\ UNCHANGED <<sampleVars, chainVars, lockVars, raceVars, telegramVars>>

\* save from line 170: pickle.dump completes and the Timer is replaced
SaveDump ==
    /\ ~shutdown
    /\ writing.phase = "open"
    /\ LET sched == Reschedule(timer, orphans, writing.force, FALSE, now)
       IN  /\ 1 + Len(sched.orphans) <= MaxTimers
           /\ timer' = sched.timer
           /\ orphans' = sched.orphans
    /\ disk' = File(writing.new)
    /\ writing' = NotWriting
    /\ ret' = [NoRet EXCEPT !.op = "save", !.force = writing.force, !.wrote = TRUE]
    /\ UNCHANGED <<_meta_data, now, shutdown>>
    /\ UNCHANGED <<sampleVars, chainVars, lockVars, raceVars, telegramVars>>

\* a save that returns at line 167 without opening the file
SaveSkipped ==
    /\ writing.phase = "idle"
    /\ Save(FALSE)
    /\ ~ret'.wrote

\* the process dies while save is between open() and the end of
\* pickle.dump: its memory and its Timers are gone
Crash ==
    /\ ~shutdown
    /\ writing.phase = "open"
    /\ writing' = [writing EXCEPT !.phase = "crashed"]
    /\ shutdown' = TRUE
    /\ _meta_data' = EmptyDict
    /\ timer' = Cancelled
    /\ orphans' = <<>>
    /\ ret' = NoRet
    /\ UNCHANGED <<disk, now>>
    /\ UNCHANGED <<sampleVars, chainVars, lockVars, raceVars, telegramVars>>

\* the next process constructs its TmdbCache: __init__ and init_config
Restart ==
    /\ writing.phase = "crashed"
    /\ writing' = NotWriting
    /\ shutdown' = FALSE
    /\ _meta_data' = __load(disk)
    /\ timer' = Created
    /\ ret' = NoRet
    /\ UNCHANGED <<disk, now, orphans>>
    /\ UNCHANGED <<sampleVars, chainVars, lockVars, raceVars, telegramVars>>

CrashNext ==
    \/ \E m \in Metas : \E info \in {Recognized(m), Null} : Update(m, info)
    \/ \E m \in Metas : Get(m)
    \/ \E k \in Keys : Delete(k)
    \/ \E force \in BOOLEAN : SaveOpen(force)
    \/ SaveDump
    \/ SaveSkipped
    \/ Crash
    \/ Restart

SpecCrash == Init /\ [][CrashNext]_vars

----------------------------------------------------------------------------
(* save with a write of the file that fails *)

\* save(force) while self.timer is cur, with a write that fails: open()
\* raises and the file stays as it was, or pickle.dump raises and the file
\* stays cut short. Lines 169-170 are in no try block, so the exception
\* leaves save there, after the sampling pass and before lines 172-176
save_fails(force, cur, orph, truncated) ==
    LET export == ExportSet(_meta_data)
        results == IF force
                   THEN {[data |-> export, ret |-> FALSE, stamped |-> {}]}
                   ELSE _random_sample(export, now)
    IN  \E s \in results :
          /\ ~Skips(force, s.ret, __load(disk), s.data)
          /\ _meta_data' = [k \in DOMAIN _meta_data |->
                              IF k \in s.stamped THEN s.data[k] ELSE _meta_data[k]]
          /\ disk' = IF truncated THEN Truncated ELSE disk
          /\ timer' = cur
          /\ orphans' = orph
          /\ ret' = [NoRet EXCEPT !.op = "save", !.force = force,
                                  !.failed = TRUE, !.raised = TRUE]
          /\ UNCHANGED <<now, shutdown>>
          /\ UNCHANGED <<sampleVars, chainVars, lockVars, crashVars, raceVars, telegramVars>>

\* the Timer self.timer refers to runs self.save, and the write fails
TimerFireFails(truncated) ==
    /\ timer.state = "pending"
    /\ now >= timer.due
    /\ save_fails(FALSE, Fired, orphans, truncated)

FailNext ==
    \/ \E d \in Deltas : Tick(d)
    \/ \E m \in Metas : \E info \in {Recognized(m), Null} : Update(m, info)
    \/ \E m \in Metas : Get(m)
    \/ \E force \in BOOLEAN : Save(force)
    \/ TimerFire
    \/ \E truncated \in BOOLEAN : TimerFireFails(truncated)

SpecFail == Init /\ [][FailNext]_vars

----------------------------------------------------------------------------
(* The cache under concurrent callers: each operation as the sequence of   *)
(* lock operations and accesses to self._meta_data its code performs       *)

acquire(line) == [kind |-> "acquire", line |-> line]
release(line) == [kind |-> "release", line |-> line]
read(line) == [kind |-> "read", line |-> line]
write(line) == [kind |-> "write", line |-> line]

\* the paths through the operations, named by operation and branch taken
Paths ==
    {"clear", "get_miss", "get_live", "get_expired", "delete",
     "delete_by_tmdbid_empty", "delete_by_tmdbid_other", "delete_by_tmdbid_hit",
     "delete_unknown_empty", "delete_unknown_other", "delete_unknown_hit",
     "modify_miss", "modify_hit", "update", "update_unknown", "save",
     "get_title", "set_title_miss", "set_title_hit"}

\* what a path does with the lock and the map, by source line
Code(path) ==
    CASE path = "clear" -> <<acquire(51), write(52), release(52)>>
      [] path = "get_miss" -> <<acquire(66), read(67), release(75)>>
      [] path = "get_live" -> <<acquire(66), read(67), write(145), release(75)>>
      [] path = "get_expired" ->
           <<acquire(66), read(67), acquire(83), write(84), release(84), release(75)>>
      [] path = "delete" -> <<acquire(83), write(84), release(84)>>
      [] path = "delete_by_tmdbid_empty" -> <<read(90)>>
      [] path = "delete_by_tmdbid_other" -> <<read(90), read(91)>>
      [] path = "delete_by_tmdbid_hit" ->
           <<read(90), read(91), acquire(92), write(93), release(93)>>
      [] path = "delete_unknown_empty" -> <<read(99)>>
      [] path = "delete_unknown_other" -> <<read(99), read(100)>>
      [] path = "delete_unknown_hit" ->
           <<read(99), read(100), acquire(101), write(102), release(102)>>
      [] path = "modify_miss" -> <<acquire(111), read(112), read(115), release(115)>>
      [] path = "modify_hit" ->
           <<acquire(111), read(112), write(113), write(114), read(115), release(115)>>
      [] path = "update" -> <<write(145)>>
      [] path = "update_unknown" -> <<write(155)>>
      [] path = "save" -> <<read(162)>>
      [] path = "get_title" -> <<read(217)>>
      [] path = "set_title_miss" -> <<read(226)>>
      [] OTHER -> <<read(226), write(229)>>

\* the instruction thread t is at
Instr(t) == Code(threads[t].op)[threads[t].pc]

\* thread t has run its instruction: it moves on, or returns after the last
Advance(t) ==
    IF threads[t].pc = Len(Code(threads[t].op))
    THEN [threads EXCEPT ![t] = IdleThread]
    ELSE [threads EXCEPT ![t].pc = @ + 1]

LockInit ==
    /\ _meta_data = EmptyDict
    /\ disk = NoFile
    /\ now = StartTime
    /\ timer = Created
    /\ orphans = <<>>
    /\ shutdown = FALSE
    /\ ret = NoRet
    /\ SampleIdle
    /\ ChainIdle
    /\ LockIdle
    /\ CrashIdle
    /\ RaceIdle
    /\ TelegramIdle

\* thread t calls an operation that takes the path
Call(t, path) ==
    /\ threads[t] = IdleThread
    /\ threads' = [threads EXCEPT ![t] = [op |-> path, pc |-> 1]]
    /\ UNCHANGED <<lock, access>>
    /\ UNCHANGED <<cacheVars, sampleVars, chainVars, crashVars, raceVars, telegramVars>>

\* with lock: an RLock is acquired when free or owned by the same thread
Acquire(t) ==
    /\ threads[t] # IdleThread
    /\ Instr(t).kind = "acquire"
    /\ lock.owner \in {0, t}
    /\ lock' = [owner |-> t, depth |-> lock.depth + 1]
    /\ threads' = Advance(t)
    /\ UNCHANGED access
    /\ UNCHANGED <<cacheVars, sampleVars, chainVars, crashVars, raceVars, telegramVars>>

\* the end of a with lock block
Release(t) ==
    /\ threads[t] # IdleThread
    /\ Instr(t).kind = "release"
    /\ lock' = IF lock.depth = 1 THEN Free ELSE [lock EXCEPT !.depth = @ - 1]
    /\ threads' = Advance(t)
    /\ UNCHANGED access
    /\ UNCHANGED <<cacheVars, sampleVars, chainVars, crashVars, raceVars, telegramVars>>

\* thread t reads or writes self._meta_data
Access(t) ==
    /\ threads[t] # IdleThread
    /\ Instr(t).kind \in {"read", "write"}
    /\ access' = [thread |-> t, op |-> threads[t].op, kind |-> Instr(t).kind,
                  line |-> Instr(t).line, owner |-> lock.owner]
    /\ threads' = Advance(t)
    /\ UNCHANGED lock
    /\ UNCHANGED <<cacheVars, sampleVars, chainVars, crashVars, raceVars, telegramVars>>

LockNext ==
    \/ \E t \in Threads, path \in Paths : Call(t, path)
    \/ \E t \in Threads : Acquire(t)
    \/ \E t \in Threads : Release(t)
    \/ \E t \in Threads : Access(t)

SpecLock == LockInit /\ [][LockNext]_vars

----------------------------------------------------------------------------
(* delete_by_tmdbid and delete_unknown step by step, with the operations   *)
(* of other threads between their steps. Only the pop runs under the lock; *)
(* get, delete and clear hold the lock for their whole body, so each of    *)
(* them is one step that falls before or after a pop, never inside it.     *)

\* the id the loop looks for: str(tmdbid), or '0' in delete_unknown
ScanTarget(op, tmdbid) == IF op = "delete_unknown" THEN "0" ELSE ToString(tmdbid)

\* lines 90 and 100: str(self._meta_data.get(key, {}).get("id")) == target
scan_test(md, key, target) ==
    (IF key \in DOMAIN md THEN IdStr(md[key]) ELSE None) = target

\* lines 92 and 102: self._meta_data.pop(key), which raises KeyError for a
\* key the dict does not hold
scan_pop(md, key) ==
    IF key \in DOMAIN md
    THEN [md |-> [k \in DOMAIN md \ {key} |-> md[k]], raised |-> FALSE]
    ELSE [md |-> md, raised |-> TRUE]

\* lines 89 and 99: list(self._meta_data) is taken once, before the loop
ScanStart(op, tmdbid) ==
    /\ ~shutdown
    /\ scan.pc \in {"idle", "done"}
    /\ ~scan.raised
    /\ scan' = [NoScan EXCEPT !.op = op, !.pc = "loop", !.tmdbid = tmdbid,
                              !.keys = DOMAIN _meta_data]
    /\ UNCHANGED cacheVars
    /\ UNCHANGED <<sampleVars, chainVars, lockVars, crashVars, telegramVars>>

\* the loop takes its next key and tests it, outside the lock; the order of
\* the keys of the dict is left open
ScanTest ==
    /\ scan.pc = "loop"
    /\ IF scan.keys = {}
       THEN scan' = [scan EXCEPT !.pc = "done"]
       ELSE \E key \in scan.keys :
              scan' = [scan EXCEPT
                         !.keys = scan.keys \ {key},
                         !.key = key,
                         !.pc = IF scan_test(_meta_data, key,
                                             ScanTarget(scan.op, scan.tmdbid))
                                THEN "pop" ELSE "loop"]
    /\ UNCHANGED cacheVars
    /\ UNCHANGED <<sampleVars, chainVars, lockVars, crashVars, telegramVars>>

\* with lock: self._meta_data.pop(key); a KeyError leaves the method
ScanPop ==
    /\ scan.pc = "pop"
    /\ LET r == scan_pop(_meta_data, scan.key)
       IN  /\ _meta_data' = r.md
           /\ scan' = [scan EXCEPT !.raised = r.raised,
                                   !.pc = IF r.raised THEN "done" ELSE "loop"]
    /\ UNCHANGED <<disk, now, timer, orphans, shutdown, ret>>
    /\ UNCHANGED <<sampleVars, chainVars, lockVars, crashVars, telegramVars>>

RaceNext ==
    \/ \E op \in {"delete_by_tmdbid", "delete_unknown"}, tmdbid \in TmdbIds :
         ScanStart(op, tmdbid)
    \/ ScanTest
    \/ ScanPop
    \/ \E d \in Deltas : Tick(d)
    \/ \E m \in Metas : \E info \in {Recognized(m), Null} : Update(m, info)
    \/ \E m \in Metas : Get(m)
    \/ \E k \in Keys : Delete(k)
    \/ Clear

SpecRace == Init /\ [][RaceNext]_vars

----------------------------------------------------------------------------
(* Subscriptions and site inventories: SearchChain.process and the loop    *)
(* bodies of SubscribeChain.search, refresh and match                      *)

\* self.subscribes.list(state): the rows in that state, by id
RECURSIVE RowsOf(_, _)
RowsOf(store, ids) ==
    IF ids = {} THEN <<>>
    ELSE LET i == CHOOSE x \in ids : \A y \in ids : x <= y
         IN  <<store[i]>> \o RowsOf(store, ids \ {i})
subscribes_list(store, state) ==
    RowsOf(store, {i \in DOMAIN store : store[i].state = state})

\* self.subscribes.update(sid, {field: value})
subscribes_update(store, sid, field, value) ==
    IF sid \in DOMAIN store
    THEN [store EXCEPT ![sid] = [@ EXCEPT ![field] = value]]
    ELSE store

\* a delete that leaves the row in the store
subscribes_delete_Noop(store, sid) == store

\* self.subscribes.delete(sid)
subscribes_delete(store, sid) == Pop(store, sid)

\* a marking that also flips a searched row back to 'N'
mark_searched_Toggle(store, subscribe) ==
    subscribes_update(store, subscribe.id, "state",
                      IF subscribe.state = "N" THEN "R" ELSE "N")

\* search, lines 83-84: a row in state 'N' is set to 'R'
mark_searched(store, subscribe) ==
    IF subscribe.state = "N"
    THEN subscribes_update(store, subscribe.id, "state", "R")
    ELSE store

\* a comparison that looks at the provider id alone
SameIdentity_IdOnly(a, b) == a.tmdb_id = b.tmdb_id

\* search.py lines 58-59, subscribe.py lines 173-174
SameIdentity(a, b) == a.tmdb_id = b.tmdb_id /\ a.type = b.type

\* search.py lines 45-47: both IMDB ids present and equal
FastPath(torrent, mediainfo) ==
    /\ torrent.imdbid # None
    /\ mediainfo.imdb_id # None
    /\ torrent.imdbid = mediainfo.imdb_id

\* a loop that recognizes every torrent before it compares the IMDB ids
Resolved_All(torrents, mediainfo) == {torrents[i] : i \in DOMAIN torrents}

\* the torrents process calls recognize_media for: line 49 skips the call
\* for those that took the fast path
Resolved(torrents, mediainfo) ==
    {torrents[i] : i \in {j \in DOMAIN torrents : ~FastPath(torrents[j], mediainfo)}}

\* search.py lines 43-60: the test that appends a torrent to _match_torrents
Matches(torrent, mediainfo) ==
    \/ FastPath(torrent, mediainfo)
    \/ /\ IsMedia(recognize_media(torrent.title))
       /\ SameIdentity(recognize_media(torrent.title), mediainfo)

\* search.py lines 64-66: a result of None keeps the list
filter_torrents(torrent_list, filter) ==
    CASE filter = "none" -> torrent_list
      [] filter = "first" -> IF torrent_list = <<>> THEN <<>> ELSE <<Head(torrent_list)>>
      [] OTHER -> <<>>

\* SearchChain.process with search_torrents returning torrents; meta is a
\* parameter the function never reads
process(meta, mediainfo, torrents, filter) ==
    IF torrents = <<>>
    THEN [resolved |-> {}, matched |-> <<>>, contexts |-> <<>>]
    ELSE LET matched == IF IsMedia(mediainfo)
                        THEN SelectSeq(torrents, LAMBDA t : Matches(t, mediainfo))
                        ELSE torrents
             kept == filter_torrents(matched, filter)
         IN  [resolved |-> IF IsMedia(mediainfo) THEN Resolved(torrents, mediainfo) ELSE {},
              matched |-> matched,
              contexts |-> [i \in DOMAIN kept |->
                              Context(MetaInfo(kept[i].title), mediainfo, kept[i])]]

\* a count of the episodes left for whatever media id
left_episodes_AnyId(lefts, tmdb_id) ==
    IF Truthy(lefts)
    THEN LET id == CHOOSE x \in DOMAIN lefts : TRUE IN lefts[id].episodes
    ELSE <<>>

\* match, line 191: lefts.get(mediainfo.tmdb_id, {}).get("episodes", [])
left_episodes(lefts, tmdb_id) ==
    IF tmdb_id \in DOMAIN lefts
    THEN IF "episodes" \in DOMAIN lefts[tmdb_id] THEN lefts[tmdb_id].episodes ELSE <<>>
    ELSE <<>>

\* the body of the loop of search for one row, with what recognize_media,
\* get_no_exists_info, search_torrents, filter_torrents and batch_download
\* answered
search_one(store, subscribe, recognized, exist_flag, torrents, filter, lefts) ==
    LET marked == mark_searched(store, subscribe)
        meta == [begin_season |-> subscribe.season]
        mediainfo == IF recognized THEN MediaOf(subscribe) ELSE NoMedia
        log == [NoLog EXCEPT !.op = "search", !.sid = subscribe.id,
                             !.season = subscribe.season, !.target = mediainfo]
        found == process(meta, mediainfo, torrents, filter)
        searched == [log EXCEPT !.searched = TRUE, !.listing = torrents,
                                !.resolved = found.resolved, !.matched = found.matched]
    IN  IF ~IsMedia(mediainfo) THEN [store |-> marked, log |-> log]
        ELSE IF exist_flag
        THEN [store |-> subscribes_delete(marked, subscribe.id),
              log |-> [log EXCEPT !.held = TRUE]]
        ELSE IF found.contexts = <<>> THEN [store |-> marked, log |-> searched]
        ELSE [store |-> IF Truthy(lefts) THEN marked
                        ELSE subscribes_delete(marked, subscribe.id),
              log |-> [searched EXCEPT !.downloaded = TRUE, !.handed = found.contexts,
                                       !.lefts = lefts]]

\* _torrents_cache, a dict in insertion order: a sequence of
\* [domain, contexts]; self._torrents_cache[domain] = contexts
CacheSet(cache, domain, contexts) ==
    IF \E i \in DOMAIN cache : cache[i].domain = domain
    THEN [i \in DOMAIN cache |->
            IF cache[i].domain = domain
            THEN [domain |-> domain, contexts |-> contexts] ELSE cache[i]]
    ELSE Append(cache, [domain |-> domain, contexts |-> contexts])

\* the list self._torrents_cache holds for a domain, empty when it has none
Inventory(cache, domain) ==
    IF \E i \in DOMAIN cache : cache[i].domain = domain
    THEN cache[CHOOSE i \in DOMAIN cache : cache[i].domain = domain].contexts
    ELSE <<>>

\* refresh, lines 127-136: the contexts of the torrents that were recognized
Recognize(torrents) ==
    LET known == SelectSeq(torrents, LAMBDA t : IsMedia(recognize_media(t.title)))
    IN  [i \in DOMAIN known |->
           Context(MetaInfo(known[i].title), recognize_media(known[i].title), known[i])]

\* the body of the loop of refresh for one site
refresh_site(cache, domain, torrents) ==
    IF torrents # <<>> THEN CacheSet(cache, domain, Recognize(torrents)) ELSE cache

\* match, lines 173-180: the test that appends a context to _match_context
MatchesContext(context, meta, mediainfo) ==
    /\ SameIdentity(context.media_info, mediainfo)
    /\ ~(meta.begin_season # 0 /\ meta.begin_season # context.meta_info.begin_season)

\* match, lines 167-180: the scan of every site's list
RECURSIVE _match_context(_, _, _)
_match_context(cache, meta, mediainfo) ==
    IF cache = <<>> THEN <<>>
    ELSE SelectSeq(Head(cache).contexts, LAMBDA c : MatchesContext(c, meta, mediainfo))
         \o _match_context(Tail(cache), meta, mediainfo)

\* every context the scan looks at
RECURSIVE AllContexts(_)
AllContexts(cache) ==
    IF cache = <<>> THEN <<>> ELSE Head(cache).contexts \o AllContexts(Tail(cache))

\* the body of the loop of match for one row. Line 181 calls the logger
\* object itself (logger(...), not logger.info(...)); app.log is not part of
\* these sources, so the call either returns (logged) or raises and match
\* ends there with the exception
\* the outcomes of a call to a collaborator: it returns, or the holdings check
\* of line 161 raises, or the download request of line 184 raises
Failures == {"none", "holdings", "download"}

match_one(store, cache, subscribe, recognized, exist_flag, logged, lefts, failure) ==
    LET meta == [begin_season |-> subscribe.season]
        mediainfo == IF recognized THEN MediaOf(subscribe) ELSE NoMedia
        log == [NoLog EXCEPT !.op = "match", !.sid = subscribe.id,
                             !.season = subscribe.season, !.target = mediainfo]
        found == _match_context(cache, meta, mediainfo)
        all == AllContexts(cache)
        scanned == [log EXCEPT !.scanned = TRUE,
                               !.listing = [i \in DOMAIN all |-> all[i].torrent_info],
                               !.matched = [i \in DOMAIN found |-> found[i].torrent_info]]
    IN  IF ~IsMedia(mediainfo) THEN [store |-> store, log |-> log]
        ELSE IF failure = "holdings"
        THEN [store |-> store,
              log |-> [log EXCEPT !.raised = TRUE, !.failed = failure]]
        ELSE IF exist_flag
        THEN [store |-> subscribes_delete(store, subscribe.id),
              log |-> [log EXCEPT !.held = TRUE]]
        ELSE IF ~logged THEN [store |-> store, log |-> [scanned EXCEPT !.raised = TRUE]]
        ELSE IF found = <<>> THEN [store |-> store, log |-> scanned]
        ELSE IF failure = "download"
        THEN [store |-> store,
              log |-> [scanned EXCEPT !.raised = TRUE, !.failed = failure,
                                      !.handed = found]]
        ELSE [store |-> IF Truthy(lefts)
                        THEN subscribes_update(store, subscribe.id, "lack_episode",
                                 Len(left_episodes(lefts, mediainfo.tmdb_id)))
                        ELSE subscribes_delete(store, subscribe.id),
              log |-> [scanned EXCEPT !.downloaded = TRUE, !.handed = found,
                                      !.lefts = lefts]]

----------------------------------------------------------------------------
(* State machine of the subscription chain: one step per pass of a loop    *)
(* body; a method runs to its end before another one starts                *)

ChainInit ==
    /\ _meta_data = EmptyDict
    /\ disk = NoFile
    /\ now = StartTime
    /\ timer = Created
    /\ orphans = <<>>
    /\ shutdown = FALSE
    /\ ret = NoRet
    /\ SampleIdle
    /\ LockIdle
    /\ CrashIdle
    /\ RaceIdle
    /\ TelegramIdle
    /\ \E rows \in SUBSET Subscriptions : subscribes = [i \in {s.id : s \in rows} |->
                                             CHOOSE s \in rows : s.id = i]
    /\ _torrents_cache = <<>>
    /\ chain_pc = "idle"
    /\ chain_todo = <<>>
    /\ chain_log = NoLog

\* search(sid, state), lines 76-79; sid 0 stands for no sid
StartSearch(sid, state) ==
    /\ chain_pc = "idle"
    /\ sid # 0 => sid \in DOMAIN subscribes
    /\ chain_pc' = "search"
    /\ chain_todo' = IF sid # 0 THEN <<subscribes[sid]>>
                     ELSE subscribes_list(subscribes, state)
    /\ chain_log' = NoLog
    /\ UNCHANGED <<subscribes, _torrents_cache>>
    /\ UNCHANGED <<cacheVars, sampleVars, lockVars, crashVars, raceVars, telegramVars>>

\* search, lines 81-114, for the next row
SearchOne(recognized, exist_flag, torrents, filter, lefts) ==
    /\ chain_pc = "search"
    /\ chain_todo # <<>>
    /\ LET r == search_one(subscribes, Head(chain_todo), recognized, exist_flag,
                           torrents, filter, lefts)
       IN  /\ subscribes' = r.store
           /\ chain_log' = r.log
    /\ chain_todo' = Tail(chain_todo)
    /\ UNCHANGED <<chain_pc, _torrents_cache>>
    /\ UNCHANGED <<cacheVars, sampleVars, lockVars, crashVars, raceVars, telegramVars>>

\* refresh, line 121
StartRefresh ==
    /\ chain_pc = "idle"
    /\ chain_pc' = "refresh"
    /\ chain_todo' = Indexers
    /\ chain_log' = NoLog
    /\ UNCHANGED <<subscribes, _torrents_cache>>
    /\ UNCHANGED <<cacheVars, sampleVars, lockVars, crashVars, raceVars, telegramVars>>

\* refresh, lines 123-138, for the next site
RefreshSite(torrents) ==
    /\ chain_pc = "refresh"
    /\ chain_todo # <<>>
    /\ _torrents_cache' = refresh_site(_torrents_cache, Head(chain_todo), torrents)
    /\ chain_log' = [NoLog EXCEPT !.op = "refresh", !.site = Head(chain_todo),
                                  !.listing = torrents]
    /\ chain_todo' = Tail(chain_todo)
    /\ UNCHANGED <<chain_pc, subscribes>>
    /\ UNCHANGED <<cacheVars, sampleVars, lockVars, crashVars, raceVars, telegramVars>>

\* refresh, line 140: self.match(), and match, line 147
RefreshMatch ==
    /\ chain_pc = "refresh"
    /\ chain_todo = <<>>
    /\ chain_pc' = "match"
    /\ chain_todo' = subscribes_list(subscribes, "R")
    /\ chain_log' = NoLog
    /\ UNCHANGED <<subscribes, _torrents_cache>>
    /\ UNCHANGED <<cacheVars, sampleVars, lockVars, crashVars, raceVars, telegramVars>>

\* match called on its own, line 147; the log keeps, as retry, the row whose
\* holdings check or download request ended the cycle just before this one
StartMatch ==
    /\ chain_pc = "idle"
    /\ chain_pc' = "match"
    /\ chain_todo' = subscribes_list(subscribes, "R")
    /\ chain_log' = [NoLog EXCEPT !.retry = IF chain_log.failed # "none"
                                            THEN chain_log.sid ELSE 0]
    /\ UNCHANGED <<subscribes, _torrents_cache>>
    /\ UNCHANGED <<cacheVars, sampleVars, lockVars, crashVars, raceVars, telegramVars>>

\* match, lines 149-195, for the next row; an exception ends the method
MatchOne(recognized, exist_flag, logged, lefts, failure) ==
    /\ chain_pc = "match"
    /\ chain_todo # <<>>
    /\ LET r == match_one(subscribes, _torrents_cache, Head(chain_todo), recognized,
                          exist_flag, logged, lefts, failure)
       IN  /\ subscribes' = r.store
           /\ chain_log' = [r.log EXCEPT !.retry = IF chain_log.retry = r.log.sid
                                                   THEN 0 ELSE chain_log.retry]
           /\ chain_pc' = IF r.log.raised THEN "idle" ELSE chain_pc
           /\ chain_todo' = IF r.log.raised THEN <<>> ELSE Tail(chain_todo)
    /\ UNCHANGED _torrents_cache
    /\ UNCHANGED <<cacheVars, sampleVars, lockVars, crashVars, raceVars, telegramVars>>

\* search or match has handled its last row and returns
ChainReturn ==
    /\ chain_pc \in {"search", "match"}
    /\ chain_todo = <<>>
    /\ chain_pc' = "idle"
    /\ chain_log' = [NoLog EXCEPT !.retry = chain_log.retry]
    /\ UNCHANGED <<chain_todo, subscribes, _torrents_cache>>
    /\ UNCHANGED <<cacheVars, sampleVars, lockVars, crashVars, raceVars, telegramVars>>

ChainNext ==
    \/ \E sid \in SubIds \cup {0}, state \in {"N", "R"} : StartSearch(sid, state)
    \/ \E recognized \in BOOLEAN, exist_flag \in BOOLEAN, torrents \in Listings,
          filter \in Filters, lefts \in Lefts :
            SearchOne(recognized, exist_flag, torrents, filter, lefts)
    \/ StartRefresh
    \/ \E torrents \in Listings : RefreshSite(torrents)
    \/ RefreshMatch
    \/ StartMatch
    \/ \E recognized \in BOOLEAN, exist_flag \in BOOLEAN, logged \in BOOLEAN,
          lefts \in Lefts, failure \in Failures :
            MatchOne(recognized, exist_flag, logged, lefts, failure)
    \/ ChainReturn

SpecChain == ChainInit /\ [][ChainNext]_vars

----------------------------------------------------------------------------
(* The Telegram message receiver: __start_telegram_message_proxy, one step *)
(* per test of a loop condition and one per call of consume_messages; the  *)
(* server and the local endpoint are the environment                       *)

\* the answer of getUpdates to a request carrying _offset, when the server has
\* received the updates 1..count: the ids from _offset on, in rising order
getUpdates(_offset, count) ==
    LET first == IF _offset < 1 THEN 1 ELSE _offset
    IN  [i \in 1..(count - first + 1) |-> first + i - 1]

\* consume_messages as it would be with the offset moved past an update only
\* once its post has answered
consume_messages_AdvanceAfter(_offset, result, fail_at) ==
    LET last == IF fail_at = 0 THEN Len(result) ELSE fail_at
        done == IF fail_at = 0 THEN Len(result) ELSE fail_at - 1
    IN  [offset |-> IF done = 0 THEN _offset ELSE result[done] + 1,
         posted |-> SubSeq(result, 1, last),
         failed |-> IF fail_at = 0 THEN {} ELSE {result[fail_at]}]

\* consume_messages, lines 161-174, for an answer holding the updates result
\* (empty when get_res gave nothing or raised), where the post of the update
\* at position fail_at raises or gives no response (0: every post answers).
\* Line 168 sets _offset before the post of line 170, and the except branch
\* of line 172 returns the _offset reached
consume_messages(_offset, result, fail_at) ==
    LET last == IF fail_at = 0 THEN Len(result) ELSE fail_at
    IN  [offset |-> IF last = 0 THEN _offset ELSE result[last] + 1,
         posted |-> SubSeq(result, 1, last),
         failed |-> IF fail_at = 0 THEN {} ELSE {result[fail_at]}]

\* the condition of the inner loop as it would be without the test of the signal
keeps_polling_IgnoresEvent(i, is_set) == i < PollsPerRound

\* line 183: index < 20 and not self._event.is_set()
keeps_polling(i, is_set) == i < PollsPerRound /\ ~is_set

TelegramInit ==
    /\ _meta_data = EmptyDict
    /\ disk = NoFile
    /\ now = StartTime
    /\ timer = Created
    /\ orphans = <<>>
    /\ shutdown = FALSE
    /\ ret = NoRet
    /\ SampleIdle
    /\ ChainIdle
    /\ LockIdle
    /\ CrashIdle
    /\ RaceIdle
    /\ TelegramIdle

\* the Thread of line 30 is started and reaches line 176
ThreadStart ==
    /\ tg_pc = "created"
    /\ tg_pc' = "outer"
    /\ offset' = 0
    /\ UNCHANGED <<_event, index, arrived, forwarded, undelivered>>
    /\ UNCHANGED <<cacheVars, sampleVars, chainVars, lockVars, crashVars, raceVars>>

\* lines 178-182: the test of the signal at the head of the outer loop
OuterTest ==
    /\ tg_pc = "outer"
    /\ tg_pc' = IF _event THEN "stopped" ELSE "inner"
    /\ index' = IF _event THEN index ELSE 0
    /\ UNCHANGED <<_event, offset, arrived, forwarded, undelivered>>
    /\ UNCHANGED <<cacheVars, sampleVars, chainVars, lockVars, crashVars, raceVars>>

\* line 183: the condition of the inner loop; when it holds the request of
\* consume_messages goes out
InnerTest ==
    /\ tg_pc = "inner"
    /\ tg_pc' = IF keeps_polling(index, _event) THEN "polling" ELSE "outer"
    /\ UNCHANGED <<_event, index, offset, arrived, forwarded, undelivered>>
    /\ UNCHANGED <<cacheVars, sampleVars, chainVars, lockVars, crashVars, raceVars>>

\* lines 184-188: consume_messages returns, having received the first n of the
\* updates the server holds
Poll(n, fail_at) ==
    /\ tg_pc = "polling"
    /\ LET answer == getUpdates(offset, arrived)
       IN  /\ n <= Len(answer)
           /\ fail_at <= n
           /\ LET r == consume_messages(offset, SubSeq(answer, 1, n), fail_at)
              IN  /\ offset' = r.offset
                  /\ forwarded' = forwarded \o r.posted
                  /\ undelivered' = undelivered \cup r.failed
    /\ index' = index + 1
    /\ tg_pc' = "inner"
    /\ UNCHANGED <<_event, arrived>>
    /\ UNCHANGED <<cacheVars, sampleVars, chainVars, lockVars, crashVars, raceVars>>

PollReturns == \E n \in 0..MaxMsgs : \E fail_at \in 0..n : Poll(n, fail_at)

\* stop(), lines 190-194
stop ==
    /\ _event' = TRUE
    /\ UNCHANGED <<tg_pc, index, offset, arrived, forwarded, undelivered>>
    /\ UNCHANGED <<cacheVars, sampleVars, chainVars, lockVars, crashVars, raceVars>>

\* a user sends a message: the server receives one more update
Arrive ==
    /\ arrived < MaxMsgs
    /\ arrived' = arrived + 1
    /\ UNCHANGED <<_event, tg_pc, index, offset, forwarded, undelivered>>
    /\ UNCHANGED <<cacheVars, sampleVars, chainVars, lockVars, crashVars, raceVars>>

TelegramNext ==
    \/ ThreadStart
    \/ OuterTest
    \/ InnerTest
    \/ PollReturns
    \/ stop
    \/ Arrive

\* the receiver thread keeps running while it has a step to take, and each
\* request of consume_messages ends: getUpdates answers within _poll_timeout
\* and the post to the local endpoint has a timeout of 10 seconds
SpecTelegram ==
    /\ TelegramInit
    /\ [][TelegramNext]_vars
    /\ WF_vars(OuterTest)
    /\ WF_vars(InnerTest)
    /\ WF_vars(PollReturns)

----------------------------------------------------------------------------
(* Properties of the cache *)

Size(d) == Cardinality(DOMAIN d)
PendingTimers == (IF timer.state = "pending" THEN 1 ELSE 0) + Len(orphans)
MetaOf(key) == CHOOSE m \in Metas : __get_key(m) = key

\* C1: whatever operations ran, the cache file holds no sentinel entry
\* (id 0), so loading it gives a cache without any key that was upserted
\* with a null record.
C1_NoSentinelOnDisk ==
    \A k \in DOMAIN __load(disk) : __load(disk)[k]["id"] # 0

\* a forced save wrote a file while the map holds a sentinel, and the file
\* lacks that key
C1_Witness ==
    /\ ret.op = "save" /\ ret.force /\ ret.wrote
    /\ disk.status = "ok"
    /\ \E k \in DOMAIN _meta_data :
         _meta_data[k]["id"] = 0 /\ k \notin DOMAIN __load(disk)

\* C2: a get at time t on an entry that is not expired (no stamp, or t before
\* the stamp) hands the entry to the caller and leaves it in the map stamped
\* t + EXPIRE_TIMESTAMP, so a get any time before that finds it live again.
C2_GetSlidesExpiry ==
    [][ (/\ ret'.op = "get"
         /\ ret'.key \in DOMAIN _meta_data
         /\ ~IsExpired(_meta_data[ret'.key], now))
        => (/\ ret'.key \in DOMAIN _meta_data'
            /\ ExpireOf(_meta_data'[ret'.key]) = now + EXPIRE_TIMESTAMP
            /\ Truthy(ret'.value)
            /\ \A t \in {now, now + EXPIRE_TIMESTAMP - 1} :
                 /\ ~IsExpired(_meta_data'[ret'.key], t)
                 /\ LET again == get(_meta_data', MetaOf(ret'.key), t)
                    IN  Truthy(again.value) /\ ret'.key \in DOMAIN again.md) ]_vars

\* a get found an entry live one second before its stamp, and slid it
C2_Witness ==
    /\ ret.op = "get" /\ Truthy(ret.value)
    /\ now = StartTime + EXPIRE_TIMESTAMP - 1
    /\ ret.key \in DOMAIN _meta_data
    /\ ExpireOf(_meta_data[ret.key]) = now + EXPIRE_TIMESTAMP

\* C3: a get on an expired entry, eviction being enabled, returns an empty
\* result.
C3_ExpiredGetReturnsEmpty ==
    [][ (/\ ret'.op = "get"
         /\ ret'.key \in DOMAIN _meta_data
         /\ IsExpired(_meta_data[ret'.key], now)
         /\ _tmdb_cache_expire)
        => ~Truthy(ret'.value) ]_vars

\* C4: a get on an expired entry, eviction being enabled, removes that key
\* from the map and leaves every other key as it was; the next get for the key
\* finds no entry.
C4_ExpiredGetEvicts ==
    [][ (/\ ret'.op = "get"
         /\ ret'.key \in DOMAIN _meta_data
         /\ IsExpired(_meta_data[ret'.key], now)
         /\ _tmdb_cache_expire)
        => (/\ DOMAIN _meta_data' = DOMAIN _meta_data \ {ret'.key}
            /\ \A k \in DOMAIN _meta_data' : _meta_data'[k] = _meta_data[k]
            /\ ~Truthy(get(_meta_data', MetaOf(ret'.key), now').value)) ]_vars

\* a get evicted an expired entry while another key stayed in the map
C4_Witness ==
    /\ ret.op = "get"
    /\ Truthy(ret.value) /\ IsExpired(ret.value, now)
    /\ ret.key \notin DOMAIN _meta_data
    /\ DOMAIN _meta_data # {}

\* C5: a forced save writes the export set; a save that is not forced writes
\* exactly when an entry of the export set has no stamp or is expired, or the
\* keys of the export set are not the keys of the file, and then the file holds
\* the export set without its expired entries; otherwise the file is untouched.
C5_SaveWritesWhenNeeded ==
    [][ ret'.op = "save"
        => LET export == ExportSet(_meta_data)
               dirty == \E k \in DOMAIN export :
                           IsUnstamped(export[k]) \/ IsExpired(export[k], now)
               kept == {k \in DOMAIN export : ~IsExpired(export[k], now)}
           IN  /\ ret'.wrote <=> (ret'.force \/ dirty
                                   \/ DOMAIN export # DOMAIN __load(disk))
               /\ ~ret'.wrote => disk' = disk
               /\ (ret'.wrote /\ ret'.force) => disk' = File(export)
               /\ (ret'.wrote /\ ~ret'.force)
                    => /\ disk'.status = "ok"
                       /\ DOMAIN disk'.data = kept
                       /\ \A k \in kept : disk'.data[k] = _meta_data'[k] ]_vars

\* a save that was not forced left a file alone whose keys are those of the
\* map although an entry differs
C5_Witness ==
    /\ ret.op = "save" /\ ~ret.force /\ ~ret.wrote
    /\ disk.status = "ok"
    /\ \E k \in DOMAIN disk.data :
         k \in DOMAIN _meta_data /\ disk.data[k] # _meta_data[k]


\* C6: of two consecutive saves that are not forced, with no operation in
\* between, at most one writes the file.
C6_AtMostOneWrite ==
    [][ (/\ ret.op = "save" /\ ~ret.force /\ ret.wrote
         /\ ret'.op = "save" /\ ~ret'.force)
        => ~ret'.wrote ]_vars

\* C7: the sampling pass terminates: an invocation can always run, it counts
\* as one pass, it calls again only on SampleSize entries or more and after
\* taking ExpiredLimit entries or more out of the set, so that the passes
\* after the first number at most a fifth of the entries removed.
C7_SamplingTerminates ==
    /\ SampleStep(new_meta_data, now) # {}
    /\ [][ /\ passes' = passes + 1
           /\ Size(new_meta_data) < SampleSize => sample_pc' = "done"
           /\ sample_pc' = "call"
                => /\ Size(new_meta_data) >= SampleSize
                   /\ Size(new_meta_data') + ExpiredLimit <= Size(new_meta_data)
                   /\ SampleStep(new_meta_data', now') # {}
           /\ ExpiredLimit * (passes' - 1) <= Size(sample_in) - Size(new_meta_data')
           /\ passes' <= 1 + Size(sample_in) ]_vars

\* a sampling pass returned after calling itself twice
C7_Witness ==
    sample_pc = "done" /\ passes = 3

AllExpired(d) == \A k \in DOMAIN d : IsExpired(d[k], now)

\* C8 as stated: started on an export set whose entries are all expired, of
\* any size, the sampling pass ends with no expired entry in the set and
\* returns TRUE.
C8_AllExpiredAnySize ==
    (sample_pc = "done" /\ AllExpired(sample_in))
    => (/\ \A k \in DOMAIN new_meta_data : ~IsExpired(new_meta_data[k], now)
        /\ sample_ret)

\* C8, amended: started on an export set that is not empty and whose entries
\* are all expired, the sampling pass ends with no expired entry in the set
\* and returns TRUE; on the empty set it returns FALSE.
C8_AllExpiredNonEmpty ==
    (sample_pc = "done" /\ AllExpired(sample_in))
    => (/\ \A k \in DOMAIN new_meta_data : ~IsExpired(new_meta_data[k], now)
        /\ sample_ret <=> DOMAIN sample_in # {})

\* a pass over more than SampleSize entries, all expired, has returned
C8_Witness ==
    /\ sample_pc = "done"
    /\ AllExpired(sample_in)
    /\ Size(sample_in) > SampleSize
    /\ passes = 2
    /\ new_meta_data = EmptyDict

\* C9: from construction until shutdown, and so after every save that is not
\* forced, a Timer is pending that will run save.
C9_TimerAlwaysPending ==
    ~shutdown => PendingTimers >= 1

\* C10: after shutdown no Timer is pending.
C10_NoTimerAfterShutdown ==
    shutdown => PendingTimers = 0

----------------------------------------------------------------------------
(* Properties of the lock *)

\* C11: every read and every mutation of the entry map, by whatever cache
\* operation, is made by a thread that holds the lock at that moment, so no
\* two threads are at the map at once.
C11_AccessUnderLock ==
    access.kind # "none" => access.owner = access.thread

----------------------------------------------------------------------------
(* Properties of the subscription chain *)

\* the number of episodes a batch_download answer leaves for a media id
MissingFor(lefts, id) == IF id \in DOMAIN lefts THEN Len(lefts[id].episodes) ELSE 0
InSeq(x, s) == \E i \in DOMAIN s : s[i] = x
SameIds(a, b) == <<a.tmdb_id, a.type>> = <<b.tmdb_id, b.type>>
CrossReferenced(torrent, target) ==
    torrent.imdbid # None /\ target.imdb_id # None /\ torrent.imdbid = target.imdb_id

\* C12: in direct search and in match, a pass that finds the media fully
\* held deletes the subscription and makes no search, no scan of the
\* inventories and no download request for it.
C12_HeldDeletesWithoutCalls ==
    chain_log.held =>
        /\ chain_log.op \in {"search", "match"}
        /\ chain_log.sid \notin DOMAIN subscribes
        /\ ~chain_log.searched
        /\ ~chain_log.scanned
        /\ ~chain_log.downloaded
        /\ chain_log.matched = <<>>
        /\ chain_log.handed = <<>>

\* match found the media fully held while the inventories hold contexts that
\* match the subscription
C12_Witness ==
    /\ chain_log.held
    /\ chain_log.op = "match"
    /\ _match_context(_torrents_cache, [begin_season |-> chain_log.season],
                      chain_log.target) # <<>>

\* C13: in match, the download step is asked only for a subscription with
\* at least one matched candidate; when its answer leaves nothing the
\* subscription is deleted, and otherwise it is kept with lack_episode set
\* to the number of episodes the answer leaves for its media id.
C13_MatchDownloadOutcome ==
    (chain_log.op = "match" /\ chain_log.downloaded) =>
        /\ chain_log.matched # <<>>
        /\ IF DOMAIN chain_log.lefts = {}
           THEN chain_log.sid \notin DOMAIN subscribes
           ELSE /\ chain_log.sid \in DOMAIN subscribes
                /\ subscribes[chain_log.sid].lack_episode =
                     MissingFor(chain_log.lefts, chain_log.target.tmdb_id)

\* match handed the series to the download step, one episode is left, and
\* the row is kept with lack_episode 1
C13_Witness ==
    /\ chain_log.op = "match"
    /\ chain_log.downloaded
    /\ chain_log.lefts = OneLeft(1396, <<3>>)
    /\ chain_log.sid \in DOMAIN subscribes
    /\ subscribes[chain_log.sid].tmdbid = 1396
    /\ subscribes[chain_log.sid].lack_episode = 1

\* C14: in direct search, after the download step the subscription is
\* deleted when nothing is left, and otherwise its lack_episode in the store
\* is the number left and its state is 'R'.
C14_SearchDownloadOutcome ==
    (chain_log.op = "search" /\ chain_log.downloaded) =>
        IF DOMAIN chain_log.lefts = {}
        THEN chain_log.sid \notin DOMAIN subscribes
        ELSE /\ chain_log.sid \in DOMAIN subscribes
             /\ subscribes[chain_log.sid].state = "R"
             /\ subscribes[chain_log.sid].lack_episode =
                  MissingFor(chain_log.lefts, chain_log.target.tmdb_id)

\* C15: the state of a row changes only from 'N' to 'R', in a pass of direct
\* search over that row; a row direct search has passed over and left in the
\* store is in state 'R', also when its media was not recognized; nothing
\* sets a state back to 'N'.
C15_StateOnlyNewToMatching ==
    [][\A sid \in DOMAIN subscribes \cap DOMAIN subscribes' :
         /\ subscribes'[sid].state # subscribes[sid].state
              => /\ subscribes[sid].state = "N"
                 /\ subscribes'[sid].state = "R"
                 /\ chain_log'.op = "search"
                 /\ chain_log'.sid = sid
         /\ (chain_log'.op = "search" /\ chain_log'.sid = sid)
              => subscribes'[sid].state = "R"]_vars

\* direct search passed over a row whose media was not recognized, and the
\* row is in state 'R'
C15_Witness ==
    /\ chain_log.op = "search"
    /\ ~IsMedia(chain_log.target)
    /\ chain_log.sid \in DOMAIN subscribes
    /\ subscribes[chain_log.sid].state = "R"

\* C16: after the refresh of a site its inventory is exactly the recognized
\* candidates of the listing of this refresh, in listing order; after an
\* empty listing it is empty.
C16_InventoryIsThisListing ==
    chain_log.op = "refresh" =>
        Inventory(_torrents_cache, chain_log.site) = Recognize(chain_log.listing)

\* C17: in match and in direct search, every candidate handed to the
\* download step for a subscription with a season has that season.
C17_SeasonGate ==
    chain_log.season # 0 =>
        \A i \in DOMAIN chain_log.handed :
            chain_log.handed[i].meta_info.begin_season = chain_log.season

\* C18: for a target without a season, in match and on the slow path of
\* direct search, a candidate is in the matched set exactly when its
\* resolved provider id and kind equal the target's, whatever its title.
C18_IdentityOnlyMatching ==
    (/\ chain_log.op \in {"search", "match"}
     /\ chain_log.season = 0
     /\ chain_log.searched \/ chain_log.scanned) =>
        \A i \in DOMAIN chain_log.listing :
            LET t == chain_log.listing[i]
            IN  \/ chain_log.op = "search" /\ CrossReferenced(t, chain_log.target)
                \/ InSeq(t, chain_log.matched)
                     <=> SameIds(recognize_media(t.title), chain_log.target)

\* match scanned an inventory for the film: the two differently titled
\* releases of it matched, the sequel and the series of the same id did not
C18_Witness ==
    /\ chain_log.op = "match"
    /\ chain_log.season = 0
    /\ chain_log.matched = <<Film, FilmCn>>
    /\ InSeq(Sequel, chain_log.listing)
    /\ InSeq(FilmAsTv, chain_log.listing)

\* C19: in direct search a candidate whose IMDB id equals the target's is
\* matched without a recognize_media call for it, and recognize_media is
\* called only for candidates that are not matched that way.
C19_FastPathSkipsResolve ==
    (chain_log.op = "search" /\ chain_log.searched) =>
        \A i \in DOMAIN chain_log.listing :
            LET t == chain_log.listing[i]
            IN  /\ CrossReferenced(t, chain_log.target)
                     => InSeq(t, chain_log.matched) /\ t \notin chain_log.resolved
                /\ t \in chain_log.resolved => ~CrossReferenced(t, chain_log.target)

\* a search listed a release nothing recognizes but with the IMDB id of the
\* series: it matched without a recognize_media call, and the film listed
\* beside it was recognized
C19_Witness ==
    /\ chain_log.op = "search"
    /\ InSeq(RawImdb, chain_log.matched)
    /\ RawImdb \notin chain_log.resolved
    /\ Film \in chain_log.resolved

----------------------------------------------------------------------------
(* Properties of the write of the file *)

\* C20: when the process dies during a save, the cache file holds either
\* all of what it held before the save or all of what the save was writing.
C20_AtomicWrite ==
    writing.phase = "crashed" =>
        disk = writing.old \/ disk = File(writing.new)

\* C22: when the holdings check or the download request of a row fails in a
\* match cycle, the stored rows are as they were (the row is there, in state
\* "R", with the lack_episode it had), and the match cycle that follows does
\* not end before it has handled that row again.
C22_FailedRowKeptAndRetried ==
    [][ /\ chain_log'.failed # "none"
          => /\ subscribes' = subscribes
             /\ chain_log'.sid \in DOMAIN subscribes'
             /\ subscribes'[chain_log'.sid].state = "R"
        /\ (chain_pc = "match" /\ chain_pc' = "idle")
          => chain_log'.retry = 0 ]_vars

\* C21: when the write of a save run by the Timer fails, no exception
\* leaves save, the map in memory is as it was, and a Timer is pending that
\* will run the next save.
C21_FailedWriteHandled ==
    [][ ret'.failed =>
          /\ ~ret'.raised
          /\ _meta_data' = _meta_data
          /\ PendingTimers' >= 1 ]_vars

----------------------------------------------------------------------------
(* Frame of get *)

\* the fields of an entry other than its stamp
EntryFields == {"id", "type", "title", "year", "poster_path", "backdrop_path"}

\* C25: a get on an entry that is not expired leaves the id, type, title,
\* year, poster path and backdrop path stored under the key as they were,
\* and a second get returns them as the first did.
C25_GetKeepsFields ==
    [][ (/\ ret'.op = "get"
         /\ ret'.key \in DOMAIN _meta_data
         /\ ~IsExpired(_meta_data[ret'.key], now))
        => (/\ ret'.key \in DOMAIN _meta_data'
            /\ \A f \in EntryFields \cap DOMAIN _meta_data[ret'.key] :
                 /\ f \in DOMAIN _meta_data'[ret'.key]
                 /\ _meta_data'[ret'.key][f] = _meta_data[ret'.key][f]
                 /\ LET again == get(_meta_data', MetaOf(ret'.key), now').value
                    IN  f \in DOMAIN again /\ again[f] = ret'.value[f]) ]_vars

----------------------------------------------------------------------------
(* Properties of the stepwise deletions *)

\* C26: delete_by_tmdbid and delete_unknown end without an exception,
\* whatever get, delete and clear calls of other threads fall between their
\* steps.
C26_ScanNeverRaises == ~scan.raised

----------------------------------------------------------------------------
(* Properties of the message receiver *)

NoDuplicates(s) == \A i, j \in DOMAIN s : s[i] = s[j] => i = j

\* C23: once stop() has set the signal, the loop ends: a poll starts only
\* where the signal is not set, a poll under way returns and counts as a
\* poll of its round, the signal stays set, and a running loop with the
\* signal set reaches its end.
C23_StopEndsLoop ==
    /\ [][ (tg_pc # "polling" /\ tg_pc' = "polling") => ~_event ]_vars
    /\ [][ (tg_pc = "polling" /\ tg_pc' # "polling")
             => (tg_pc' = "inner" /\ index' = index + 1) ]_vars
    /\ [][ _event => _event' ]_vars
    /\ []((_event /\ tg_pc \in {"outer", "inner", "polling"})
            => <>(tg_pc = "stopped"))

\* the loop was stopped in the middle of a round, after polls of that round
C23_Witness ==
    /\ tg_pc = "stopped"
    /\ _event
    /\ index > 0
    /\ index < PollsPerRound

\* C24: no update is posted to the local endpoint twice: every update a poll
\* posts lies below the offset the poll returns, whether its post failed or
\* not, and the offset never decreases.
C24_ForwardedAtMostOnce ==
    [][ /\ offset' >= offset
        /\ NoDuplicates(forwarded')
        /\ \A i \in DOMAIN forwarded' \ DOMAIN forwarded :
             forwarded'[i] < offset' ]_vars

\* the post of an update failed, and later polls have posted later updates
C24_Witness ==
    \E u \in undelivered :
      /\ \E i \in DOMAIN forwarded : forwarded[i] > u
      /\ Cardinality({i \in DOMAIN forwarded : forwarded[i] = u}) = 1

====
